---- MODULE Spec2Model ----
\* HL7 path addressing (amaster507/goschemaless): the path validator, the path
\* parser and the message abstraction engine, as pure functions applied by
\* the actions of small state machines whose initial states draw the inputs.
\*
\* A Go string is modelled as a sequence of one-character strings (bytes);
\* "" is <<>>.  An error value is modelled by its message, nil by Nil.
EXTENDS Integers, Sequences, FiniteSets, TLC

VARIABLES text, path, message, result, pc

vars == <<text, path, message, result, pc>>

----------------------------------------------------------------------------
\* Characters and strings

CR == "\r"
LF == "\n"
BS == "\\"

Upper == {"A", "B", "C", "D", "E", "F", "G", "H", "I", "J", "K", "L", "M",
          "N", "O", "P", "Q", "R", "S", "T", "U", "V", "W", "X", "Y", "Z"}

Digit == {"0", "1", "2", "3", "4", "5", "6", "7", "8", "9"}

MSH == <<"M", "S", "H">>
PID == <<"P", "I", "D">>
OBX == <<"O", "B", "X">>

Nil == "<nil>"

Min(S) == CHOOSE x \in S : \A y \in S : x <= y

\* strings.HasPrefix
HasPrefix(s, prefix) ==
    /\ Len(s) >= Len(prefix)
    /\ SubSeq(s, 1, Len(prefix)) = prefix

\* strings.Index, 1-based; 0 when sep does not occur (sep is never empty here)
IndexOf(s, sep) ==
    LET hits == {i \in 1..(Len(s) - Len(sep) + 1) :
                    SubSeq(s, i, i + Len(sep) - 1) = sep}
    IN  IF hits = {} THEN 0 ELSE Min(hits)

\* strings.Split with a non-empty separator: cut at the non-overlapping
\* occurrences found left to right; n occurrences give n+1 pieces
RECURSIVE Split(_, _)
Split(s, sep) ==
    LET i == IndexOf(s, sep)
    IN  IF i = 0
        THEN <<s>>
        ELSE <<SubSeq(s, 1, i - 1)>> \o Split(SubSeq(s, i + Len(sep), Len(s)), sep)

\* strings.ReplaceAll with a non-empty old: non-overlapping, left to right,
\* the inserted text is not scanned again
RECURSIVE ReplaceAll(_, _, _)
ReplaceAll(s, old, new) ==
    LET i == IndexOf(s, old)
    IN  IF i = 0
        THEN s
        ELSE SubSeq(s, 1, i - 1) \o new
                \o ReplaceAll(SubSeq(s, i + Len(old), Len(s)), old, new)

----------------------------------------------------------------------------
\* HL7Path and HL7Path.Validate

HL7Path(seg, si, f, r, c, sc) ==
    [Segment |-> seg, SegmentIndex |-> si, Field |-> f,
     RepetitionIndex |-> r, Component |-> c, Subcomponent |-> sc]

ZeroPath == HL7Path(<<>>, 0, 0, 0, 0, 0)

ErrSegmentEmpty == "if Segment is empty, the rest of the path must be empty or 0"
ErrMSHIndex     == "if Segment is MSH, SegmentIndex must be 1"
ErrMSHField1    == "if Segment is MSH and Field is 1, the rest of the path must be empty or 0"
ErrFieldSegment == "if Field is set, Segment must be set"
ErrRepField     == "if RepetitionIndex is set, Field must be set"
ErrFieldRep     == "if Field is set, RepetitionIndex must be at least 1"
ErrCompField    == "if Component is set, Field must be set"
ErrSubComp      == "if Subcomponent is set, Component must be set"

Validate(p) ==
    IF p.Segment = <<>>
    THEN IF \/ p.SegmentIndex # 0 \/ p.Field # 0 \/ p.RepetitionIndex # 0
            \/ p.Component # 0 \/ p.Subcomponent # 0
         THEN ErrSegmentEmpty
         ELSE Nil
    ELSE IF p.Segment = MSH /\ p.SegmentIndex # 1 THEN ErrMSHIndex
    ELSE IF /\ p.Segment = MSH /\ p.Field = 1
            /\ (p.Component # 0 \/ p.Subcomponent # 0) THEN ErrMSHField1
    ELSE IF p.Field # 0 /\ p.Segment = <<>> THEN ErrFieldSegment
    ELSE IF p.RepetitionIndex # 0 /\ p.Field = 0 THEN ErrRepField
    ELSE IF p.Field # 0 /\ p.RepetitionIndex = 0 THEN ErrFieldRep
    ELSE IF p.Component # 0 /\ p.Field = 0 THEN ErrCompField
    ELSE IF p.Subcomponent # 0 /\ p.Component = 0 THEN ErrSubComp
    ELSE Nil

----------------------------------------------------------------------------
\* ParsePath

ErrPathFormat == "invalid path format"
ErrSegLen     == "segment name must be 3 characters"
ErrSegFirst   == "segment name must begin with an uppercase letter"
ErrSegAlnum   == "segment name must be uppercase alphanumeric"

Max(S) == CHOOSE x \in S : \A y \in S : x >= y

\* the end of the run of digits that starts at s[i]; i - 1 when s[i] is none
DigitRunEnd(s, i) ==
    Max({j \in (i - 1)..Len(s) : \A k \in i..j : s[k] \in Digit})

\* (?:\[(\d+)\])? at position p: the group when it is there, else nothing
\* consumed and the group unset ("")
matchBracket(s, p) ==
    LET e == DigitRunEnd(s, p + 1)
    IN  IF p <= Len(s) /\ s[p] = "[" /\ e >= p + 1 /\ e + 1 <= Len(s) /\ s[e + 1] = "]"
        THEN [g |-> SubSeq(s, p + 1, e), next |-> e + 2]
        ELSE [g |-> <<>>, next |-> p]

\* [-\.](\d+) at position p
matchNumber_DashOnly(s, p) ==
    LET e == DigitRunEnd(s, p + 1)
    IN  IF p <= Len(s) /\ s[p] = "-" /\ e >= p + 1
        THEN [ok |-> TRUE, g |-> SubSeq(s, p + 1, e), next |-> e + 1]
        ELSE [ok |-> FALSE, g |-> <<>>, next |-> p]

matchNumber(s, p) ==
    LET e == DigitRunEnd(s, p + 1)
    IN  IF p <= Len(s) /\ s[p] \in {"-", "."} /\ e >= p + 1
        THEN [ok |-> TRUE, g |-> SubSeq(s, p + 1, e), next |-> e + 1]
        ELSE [ok |-> FALSE, g |-> <<>>, next |-> p]

NoMatch == [ok |-> FALSE, groups |-> <<>>]

Matched(seg, si, f, r, c, sc) == [ok |-> TRUE, groups |-> <<seg, si, f, r, c, sc>>]

\* pathExp.FindStringSubmatch: the six capture groups, unset ones "".  The
\* expression is anchored at both ends and every optional group starts
\* with a character nothing else accepts, so a group that cannot be
\* completed leaves text that the end anchor rejects.
pathExpMatch(s) ==
    IF ~(/\ Len(s) >= 3
         /\ s[1] \in Upper
         /\ s[2] \in Upper \union Digit
         /\ s[3] \in Upper \union Digit)
    THEN NoMatch
    ELSE
    LET seg == SubSeq(s, 1, 3)
        end == Len(s) + 1
        si  == matchBracket(s, 4)
        f   == matchNumber(s, si.next)
    IN  IF ~f.ok
        THEN IF si.next = end THEN Matched(seg, si.g, <<>>, <<>>, <<>>, <<>>) ELSE NoMatch
        ELSE
        LET r == matchBracket(s, f.next)
            c == matchNumber(s, r.next)
        IN  IF ~c.ok
            THEN IF r.next = end THEN Matched(seg, si.g, f.g, r.g, <<>>, <<>>) ELSE NoMatch
            ELSE
            LET sc == matchNumber(s, c.next)
            IN  IF ~sc.ok
                THEN IF c.next = end THEN Matched(seg, si.g, f.g, r.g, c.g, <<>>)
                     ELSE NoMatch
                ELSE IF sc.next = end THEN Matched(seg, si.g, f.g, r.g, c.g, sc.g)
                     ELSE NoMatch

parseSegmentNameOrError(s) ==
    IF Len(s) # 3 THEN [name |-> <<>>, err |-> ErrSegLen]
    ELSE IF s[1] \notin Upper THEN [name |-> <<>>, err |-> ErrSegFirst]
    ELSE IF \E i \in 2..3 : s[i] \notin Upper \union Digit
         THEN [name |-> <<>>, err |-> ErrSegAlnum]
    ELSE [name |-> s, err |-> Nil]

DigitValue(d) ==
    CASE d = "0" -> 0 [] d = "1" -> 1 [] d = "2" -> 2 [] d = "3" -> 3 [] d = "4" -> 4
      [] d = "5" -> 5 [] d = "6" -> 6 [] d = "7" -> 7 [] d = "8" -> 8 [] d = "9" -> 9

RECURSIVE StripZeros(_)
StripZeros(ds) ==
    IF Len(ds) > 1 /\ ds[1] = "0" THEN StripZeros(Tail(ds)) ELSE ds

\* the largest int, 1<<63 - 1, in decimal
MaxIntDigits == <<"9", "2", "2", "3", "3", "7", "2", "0", "3", "6",
                  "8", "5", "4", "7", "7", "5", "8", "0", "7">>

\* a <= b for digit strings of the same length
RECURSIVE DigitsLeq(_, _)
DigitsLeq(a, b) ==
    IF a = <<>> THEN TRUE
    ELSE IF a[1] # b[1] THEN DigitValue(a[1]) < DigitValue(b[1])
    ELSE DigitsLeq(Tail(a), Tail(b))

\* the decimal number fits an int (64 bits): otherwise the scan fails with
\* a range error
FitsInt(ds) ==
    LET d == StripZeros(ds)
    IN  \/ Len(d) < Len(MaxIntDigits)
        \/ Len(d) = Len(MaxIntDigits) /\ DigitsLeq(d, MaxIntDigits)

RECURSIVE DecimalValue(_)
DecimalValue(ds) ==
    IF ds = <<>> THEN 0
    ELSE 10 * DecimalValue(SubSeq(ds, 1, Len(ds) - 1)) + DigitValue(ds[Len(ds)])

\* fmt.Sscanf(s, "%d", &res): "" and a failed scan give the default.  The
\* callers pass "" or a run of digits; of any other text the leading digits
\* are scanned.
parseIntOrDefault(s, defaultVal) ==
    IF s = <<>> THEN defaultVal
    ELSE LET ds == SubSeq(s, 1, DigitRunEnd(s, 1))
         IN  IF ds = <<>> \/ ~FitsInt(ds) THEN defaultVal
             ELSE DecimalValue(StripZeros(ds))

\* the default of the repetitionIndex group
repetitionDefault_Zero(field) == 0

repetitionDefault(field) == IF field > 0 THEN 1 ELSE 0

ParsePath(s) ==
    IF s = <<>> THEN [path |-> ZeroPath, err |-> Nil]
    ELSE
    LET match == pathExpMatch(s)
    IN  IF ~match.ok THEN [path |-> ZeroPath, err |-> ErrPathFormat]
        ELSE
        LET segment == parseSegmentNameOrError(match.groups[1])
            field   == parseIntOrDefault(match.groups[3], 0)
        IN  IF segment.err # Nil THEN [path |-> ZeroPath, err |-> segment.err]
            ELSE [path |-> HL7Path(segment.name,
                                   parseIntOrDefault(match.groups[2], 1),
                                   field,
                                   parseIntOrDefault(match.groups[4],
                                                     repetitionDefault(field)),
                                   parseIntOrDefault(match.groups[5], 0),
                                   parseIntOrDefault(match.groups[6], 0)),
                  err |-> Nil]

----------------------------------------------------------------------------
\* AbstractHL7

\* What a call produces: a (string, error) pair, or a run-time panic
\* (index out of range) that aborts the call.
Ret(v)  == [val |-> v, err |-> Nil, panicked |-> FALSE]
Fail(e) == [val |-> <<>>, err |-> e, panicked |-> FALSE]
Panic   == [val |-> <<>>, err |-> Nil, panicked |-> TRUE]

ErrNotMSH      == "invalid HL7 message: must begin with MSH"
ErrTooShort    == "invalid HL7 message: message too short to contain separators and meaningful data"
ErrNoComponent == "missing component separator"
ErrNoRepeat    == "missing repetition separator"
ErrNoEscape    == "missing escape character"
ErrNoSubcomp   == "missing subcomponent separator"
ErrExtraSeps   == "unexpected extra separators"
ErrNotUnique   == "separators must be unique"

\* slices.SortFunc(separators, len(b) - len(a)): longest first.  For fewer
\* than 13 elements the standard library sorts by insertion, which keeps
\* elements of equal length in their given order.
RECURSIVE InsertByLen(_, _)
InsertByLen(sorted, x) ==
    IF sorted = <<>> THEN <<x>>
    ELSE LET last == sorted[Len(sorted)]
         IN  IF Len(last) - Len(x) < 0
             THEN Append(InsertByLen(SubSeq(sorted, 1, Len(sorted) - 1), x), last)
             ELSE Append(sorted, x)

RECURSIVE SortByLenDesc(_)
SortByLenDesc(seps) ==
    IF seps = <<>> THEN <<>>
    ELSE InsertByLen(SortByLenDesc(SubSeq(seps, 1, Len(seps) - 1)), seps[Len(seps)])

\* the loop of splitByAnyOf: every separator but the first is replaced by
\* the first, one after the other, each pass over the result of the last
RECURSIVE ReplaceEach(_, _, _)
ReplaceEach(s, separators, i) ==
    IF i > Len(separators) THEN s
    ELSE ReplaceEach(ReplaceAll(s, separators[i], separators[1]), separators, i + 1)

splitByAnyOf(s, separators) ==
    IF Len(separators) = 0 THEN <<s>>
    ELSE LET sorted == SortByLenDesc(separators)
         IN  Split(ReplaceEach(s, sorted, 2), sorted[1])

SegmentTerminators == << <<CR, LF>>, <<CR>>, <<LF>> >>

\* an index expression s[i] of the code is in range (0-based); out of range
\* it panics
InRange(i, n) == 0 <= i /\ i < n

\* if path.Field >= len(fields): the field number is past the last field
fieldOutOfRange_Off(p, fields) == p.Field > Len(fields)

fieldOutOfRange(p, fields) == p.Field >= Len(fields)

\* if path.Component > len(components): the component number is past the
\* last component
componentOutOfRange_Off(p, components) == p.Component >= Len(components)

componentOutOfRange(p, components) == p.Component > Len(components)

\* the body of the segment loop once the target segment is found
extractFromSegment(segment, p, fs, cs, rs, ss) ==
    IF p.Field = 0 THEN Ret(segment)
    ELSE
    LET fieldSeparator        == fs
        componentSeparator    == cs
        repetitionSeparator   == rs
        subcomponentSeparator == ss
        split  == Split(segment, <<fieldSeparator>>)
        fields == IF p.Segment = MSH
                  THEN <<split[1]>> \o << <<fieldSeparator>> >>
                          \o SubSeq(split, 2, Len(split))
                  ELSE split
    IN  \* the code's slices are indexed from 0: fields[k] is fields[k + 1] here
        IF fieldOutOfRange(p, fields) THEN Ret(<<>>)
        ELSE IF ~InRange(p.Field, Len(fields)) THEN Panic
        ELSE
        LET field == fields[p.Field + 1]
            repetitions == IF ~(p.Segment = MSH /\ p.Field = 2)
                           THEN Split(field, <<repetitionSeparator>>)
                           ELSE <<field>>
        IN  IF p.RepetitionIndex > Len(repetitions) THEN Ret(<<>>)
            ELSE IF ~InRange(p.RepetitionIndex - 1, Len(repetitions)) THEN Panic
            ELSE
            LET repetition == repetitions[p.RepetitionIndex] IN
            IF p.Component = 0 THEN Ret(repetition)
            ELSE
            LET components == Split(repetition, <<componentSeparator>>) IN
            IF componentOutOfRange(p, components) THEN Ret(<<>>)
            ELSE IF ~InRange(p.Component - 1, Len(components)) THEN Panic
            ELSE
            LET component == components[p.Component] IN
            IF p.Subcomponent = 0 THEN Ret(component)
            ELSE
            LET subcomponents == Split(component, <<subcomponentSeparator>>) IN
            IF p.Subcomponent > Len(subcomponents) THEN Ret(<<>>)
            ELSE IF ~InRange(p.Subcomponent - 1, Len(subcomponents)) THEN Panic
            ELSE Ret(subcomponents[p.Subcomponent])

\* for _, segment := range segments, with the running segmentCount; falling
\* out of the loop returns "", nil
RECURSIVE scanSegments(_, _, _, _, _, _, _, _)
scanSegments(segments, i, segmentCount, p, fs, cs, rs, ss) ==
    IF i > Len(segments) THEN Ret(<<>>)
    ELSE IF HasPrefix(segments[i], p.Segment)
         THEN IF segmentCount + 1 = p.SegmentIndex
              THEN extractFromSegment(segments[i], p, fs, cs, rs, ss)
              ELSE scanSegments(segments, i + 1, segmentCount + 1, p, fs, cs, rs, ss)
         ELSE scanSegments(segments, i + 1, segmentCount, p, fs, cs, rs, ss)

\* the five separators are pairwise distinct (the seen-map loop)
SeparatorsUnique(separatorsSet) ==
    \A i, j \in 1..Len(separatorsSet) :
        i < j => separatorsSet[i] # separatorsSet[j]

\* the checks of the delimiter block that follow the MSH-1 shortcut, in the
\* code's order; separators is message[3:10], fieldSeparator separators[0]
separatorError_NoClosingPair(separators) ==
    LET fieldSeparator == separators[1]
    IN  IF separators[2] = fieldSeparator THEN ErrNoComponent
        ELSE IF separators[3] = fieldSeparator THEN ErrNoRepeat
        ELSE IF separators[4] = fieldSeparator THEN ErrNoEscape
        ELSE IF separators[5] = fieldSeparator THEN ErrNoSubcomp
        ELSE IF ~SeparatorsUnique(SubSeq(separators, 1, 5)) THEN ErrNotUnique
        ELSE Nil

separatorError(separators) ==
    LET fieldSeparator == separators[1]
    IN  IF separators[2] = fieldSeparator THEN ErrNoComponent
        ELSE IF separators[3] = fieldSeparator THEN ErrNoRepeat
        ELSE IF separators[4] = fieldSeparator THEN ErrNoEscape
        ELSE IF separators[5] = fieldSeparator THEN ErrNoSubcomp
        ELSE IF separators[6] # fieldSeparator /\ separators[7] # fieldSeparator
             THEN ErrExtraSeps
        ELSE IF ~SeparatorsUnique(SubSeq(separators, 1, 5)) THEN ErrNotUnique
        ELSE Nil

\* AbstractHL7 from the header checks on: the path is valid and not the
\* zero value
abstractMessage(m, p) ==
    IF Len(m) < 3 \/ SubSeq(m, 1, 3) # MSH THEN Fail(ErrNotMSH)
    ELSE IF Len(m) < 10 THEN Fail(ErrTooShort)
    ELSE
    LET separators     == SubSeq(m, 4, 10)
        fieldSeparator == separators[1]
    IN  IF p.Segment = MSH /\ p.Field = 1 THEN Ret(<<fieldSeparator>>)
        ELSE IF separatorError(separators) # Nil THEN Fail(separatorError(separators))
        ELSE scanSegments(splitByAnyOf(m, SegmentTerminators), 1, 0, p,
                          fieldSeparator, separators[2], separators[3],
                          separators[5])

\* AbstractHL7 after the path has passed Validate
abstractValidated_HeaderFirst(m, p) ==
    IF Len(m) < 3 \/ SubSeq(m, 1, 3) # MSH THEN Fail(ErrNotMSH)
    ELSE IF p = ZeroPath THEN Ret(m) ELSE abstractMessage(m, p)

abstractValidated(m, p) ==
    IF p = ZeroPath THEN Ret(m) ELSE abstractMessage(m, p)

AbstractHL7_NoValidate(m, p) == abstractValidated(m, p)

AbstractHL7(m, p) ==
    IF Validate(p) # Nil THEN Fail(Validate(p)) ELSE abstractValidated(m, p)

----------------------------------------------------------------------------
\* Inputs

MaxSegs == 2
MaxIdx  == 2
MinIdx  == 0 - 1

\* delimiter blocks: the standard one, one with a fifth separator, one that
\* gives the same characters other roles, and malformed ones
HdrStd       == MSH \o <<"|", "^", "~", BS, "&", "|">>
HdrFive      == MSH \o <<"|", "^", "~", BS, "&", "#", "|">>
HdrSwap      == MSH \o <<"^", "|", "~", BS, "&", "^">>
HdrNoClose   == MSH \o <<"|", "^", "~", BS, "&", "A", "B">>
HdrNoCloseEq == MSH \o <<"|", "^", "^", BS, "&", "A", "B">>
HdrNoComp    == MSH \o <<"|", "|", "~", BS, "&", "|", "x">>
HdrNotUnique == MSH \o <<"|", "^", "^", BS, "&", "|", "x">>

HdrTail == <<"A", "~", "B", "^", "C", "&", "D">>

SegPID  == PID \o <<"|", "a", "^", "b", "&", "c", "~", "d">>
\* a field that holds an escape sequence between two spaces
SegPIDX == PID \o <<"X", "|", " ", BS, "F", BS, " ">>
SegOBX  == OBX \o <<"|", "1">>

SegTexts == {SegPID, SegPIDX, SegOBX}

Terminators == {<<CR>>, <<LF>>, <<CR, LF>>}

RECURSIVE Join(_, _)
Join(segs, t) ==
    IF Len(segs) = 0 THEN <<>>
    ELSE IF Len(segs) = 1 THEN segs[1]
    ELSE segs[1] \o t \o Join(Tail(segs), t)

\* the segment lists that follow the header segment: up to n segments,
\* no text twice
RECURSIVE SegLists(_)
SegLists(n) ==
    IF n = 0 THEN {<<>>}
    ELSE SegLists(n - 1) \union
         UNION {{Append(l, s) : s \in SegTexts \ {l[i] : i \in 1..Len(l)}} :
                    l \in {x \in SegLists(n - 1) : Len(x) = n - 1}}

GoodHeads == {HdrStd, HdrFive \o HdrTail, HdrSwap \o HdrTail}

BadHeads == {<<>>, <<"M", "S">>, PID \o <<"|", "1">>,
             HdrNoClose, HdrNoCloseEq, HdrNoComp, HdrNotUnique}

GoodMessages ==
    {Join(<<h>> \o l, t) : h \in GoodHeads, l \in SegLists(MaxSegs), t \in Terminators}

BadMessages ==
    {Join(<<h>> \o l, <<CR>>) : h \in BadHeads, l \in SegLists(1)}

Messages == GoodMessages \union BadMessages

SegmentNames == {<<>>, MSH, PID}

Paths ==
    {HL7Path(seg, si, f, r, c, sc) :
        seg \in SegmentNames, si \in MinIdx..MaxIdx, f \in MinIdx..(MaxIdx + 1),
        r \in MinIdx..MaxIdx, c \in MinIdx..MaxIdx, sc \in MinIdx..MaxIdx}

ValidPaths == {p \in Paths : Validate(p) = Nil}

----------------------------------------------------------------------------
\* The state machine: a caller holding a message and a path that passes
\* Validate calls AbstractHL7

NoResult == [val |-> <<>>, err |-> Nil, panicked |-> FALSE]

Init ==
    /\ message \in Messages
    /\ path \in ValidPaths
    /\ text = <<>>
    /\ result = NoResult
    /\ pc = "ready"

CallAbstractHL7 ==
    /\ pc = "ready"
    /\ result' = AbstractHL7(message, path)
    /\ pc' = "abstracted"
    /\ UNCHANGED <<text, path, message>>

Next == CallAbstractHL7

Spec == Init /\ [][Next]_vars

----------------------------------------------------------------------------
\* A caller holding any path, valid or not, calls Validate or AbstractHL7

FewMessages ==
    BadMessages \union {HdrStd, Join(<<HdrFive \o HdrTail, SegPID>>, <<CR>>)}

InitAny ==
    /\ message \in FewMessages
    /\ path \in Paths
    /\ text = <<>>
    /\ result = NoResult
    /\ pc = "ready"

CallValidate ==
    /\ pc = "ready"
    /\ result' = [val |-> <<>>, err |-> Validate(path), panicked |-> FALSE]
    /\ pc' = "validated"
    /\ UNCHANGED <<text, path, message>>

NextAny == CallAbstractHL7 \/ CallValidate

SpecAny == InitAny /\ [][NextAny]_vars

----------------------------------------------------------------------------
\* A caller holding a path text calls ParsePath and validates what it gets

MaxNum == 2

\* more than the largest int
TooBig == <<"9", "2", "2", "3", "3", "7", "2", "0", "3", "6",
            "8", "5", "4", "7", "7", "5", "8", "0", "8">>

SmallNumTexts == {<<d>> : d \in {x \in Digit : DigitValue(x) <= MaxNum}}

NumTexts == SmallNumTexts \union {<<"0", "2">>, TooBig}

NameParts == {<<>>, PID, MSH, <<"P", "1", "D">>, <<"p", "I", "D">>,
              <<"1", "I", "D">>, <<"P", "I">>}

IdxParts == {<<>>, <<"[">>} \union {<<"[">> \o n \o <<"]">> : n \in NumTexts}

FldParts == {<<>>, <<"-">>, <<".", "1">>} \union {<<"-">> \o n : n \in NumTexts}

RepParts == {<<>>, <<"[", "0", "]">>, <<"[", "2", "]">>, <<"[">> \o TooBig \o <<"]">>}

CmpParts == {<<>>, <<".", "0">>, <<".", "2">>, <<"-", "1">>, <<"x">>, <<".">> \o TooBig}

SubParts == {<<>>, <<".", "0">>, <<"-", "1">>, <<".", "2">>, <<"-">> \o TooBig}

Texts ==
    {n \o i \o f \o r \o c \o sc :
        n \in NameParts, i \in IdxParts, f \in FldParts,
        r \in RepParts, c \in CmpParts, sc \in SubParts}

InitParse ==
    /\ text \in Texts
    /\ path = ZeroPath
    /\ message = <<>>
    /\ result = NoResult
    /\ pc = "ready"

CallParsePath ==
    /\ pc = "ready"
    /\ path' = ParsePath(text).path
    /\ result' = [val |-> <<>>, err |-> ParsePath(text).err, panicked |-> FALSE]
    /\ pc' = "parsed"
    /\ UNCHANGED <<text, message>>

\* the caller goes on to validate the path it got, as AbstractHL7 will
ValidateParsed ==
    /\ pc = "parsed"
    /\ result.err = Nil
    /\ result' = [val |-> <<>>, err |-> Validate(path), panicked |-> FALSE]
    /\ pc' = "validated"
    /\ UNCHANGED <<text, path, message>>

NextParse == CallParsePath \/ ValidateParsed

SpecParse == InitParse /\ [][NextParse]_vars

----------------------------------------------------------------------------
\* What the claims speak of, stated without the code's functions

\* the segment texts of a message: "\r\n", "\r" and "\n" each end a segment
RECURSIVE RefSegments(_)
RefSegments(m) ==
    LET ends == {i \in 1..Len(m) : m[i] \in {CR, LF}}
    IN  IF ends = {} THEN <<m>>
        ELSE LET i == Min(ends)
                 n == IF m[i] = CR /\ i < Len(m) /\ m[i + 1] = LF THEN 2 ELSE 1
             IN  <<SubSeq(m, 1, i - 1)>> \o RefSegments(SubSeq(m, i + n, Len(m)))

\* the message passes every header check
HeaderOK(m) ==
    /\ Len(m) >= 10
    /\ SubSeq(m, 1, 3) = MSH
    /\ Cardinality({m[4], m[5], m[6], m[7], m[8]}) = 5
    /\ m[4] \in {m[9], m[10]}

RefMatching(m, name) == SelectSeq(RefSegments(m), LAMBDA seg : HasPrefix(seg, name))

\* the number of the last field of a segment, its fields and their repetitions
RefLastField(seg, name, fs) ==
    IF name = MSH THEN Len(Split(seg, <<fs>>)) ELSE Len(Split(seg, <<fs>>)) - 1

RefField(seg, name, fs, f) ==
    IF name # MSH THEN Split(seg, <<fs>>)[f + 1]
    ELSE IF f = 1 THEN <<fs>> ELSE Split(seg, <<fs>>)[f]

RefRepetitions(field, name, f, rs) ==
    IF name = MSH /\ f = 2 THEN <<field>> ELSE Split(field, <<rs>>)

\* the address resolves past the available data, at the first level it names
PastData(m, p) ==
    LET matching == RefMatching(m, p.Segment)
        fs == m[4]
        cs == m[5]
        rs == m[6]
        ss == m[8]
    IN  /\ p.Segment # <<>>
        /\ \/ Len(matching) < p.SegmentIndex
           \/ /\ p.SegmentIndex \in 1..Len(matching)
              /\ LET seg  == matching[p.SegmentIndex]
                     last == RefLastField(seg, p.Segment, fs)
                 IN  \/ p.Field > last
                     \/ /\ p.Field \in 1..last
                        /\ LET reps == RefRepetitions(RefField(seg, p.Segment, fs, p.Field),
                                                      p.Segment, p.Field, rs)
                           IN  \/ p.RepetitionIndex > Len(reps)
                               \/ /\ p.RepetitionIndex \in 1..Len(reps)
                                  /\ LET comps == Split(reps[p.RepetitionIndex], <<cs>>)
                                     IN  \/ p.Component > Len(comps)
                                         \/ /\ p.Component \in 1..Len(comps)
                                            /\ p.Subcomponent >
                                                 Len(Split(comps[p.Component], <<ss>>))

IsMSH1(p) == p.Segment = MSH /\ p.Field = 1

----------------------------------------------------------------------------
\* Claims about AbstractHL7 on valid paths (specification Spec)

\* C1 (as stated): on a message that passes the header checks, a valid path
\* that resolves past the available data yields "" and a nil error.
C1_PastDataIsEmpty ==
    (pc = "abstracted" /\ HeaderOK(message) /\ Validate(path) = Nil
        /\ PastData(message, path))
    => result = Ret(<<>>)

\* C1 (amended): the same, except for a path that addresses MSH field 1,
\* for which the field separator is returned whatever RepetitionIndex is.
C1_PastDataIsEmptyButMSH1 ==
    (pc = "abstracted" /\ HeaderOK(message) /\ Validate(path) = Nil
        /\ PastData(message, path))
    => result = IF IsMSH1(path) THEN Ret(<<message[4]>>) ELSE Ret(<<>>)

\* C1 witness: a component number past the components of the selected
\* repetition has been resolved to "".
C1_Witness ==
    /\ pc = "abstracted" /\ HeaderOK(message)
    /\ path = HL7Path(PID, 1, 1, 2, 2, 0)
    /\ PastData(message, path)
    /\ result = Ret(<<>>)

\* C3: the zero-value path returns the message unchanged with a nil error,
\* whether or not the message is well formed.
C3_ZeroPathIdentity ==
    (pc = "abstracted" /\ path = ZeroPath) => result = Ret(message)

\* C3 witness: a message that does not begin with MSH came back unchanged.
C3_Witness ==
    /\ pc = "abstracted" /\ path = ZeroPath
    /\ message = PID \o <<"|", "1">>
    /\ result = Ret(message)

\* the closing pair of the delimiter block names the field separator nowhere
NoClosingPair(m) ==
    /\ Len(m) >= 10
    /\ SubSeq(m, 1, 3) = MSH
    /\ m[9] # m[4]
    /\ m[10] # m[4]

IsError(r) == r.err # Nil /\ r.val = <<>> /\ ~r.panicked

\* C8 (as stated): with a malformed closing pair every valid non-zero path,
\* MSH-1 included, gets an error and an empty result.
C8_ClosingPairFatal ==
    (pc = "abstracted" /\ NoClosingPair(message) /\ Validate(path) = Nil
        /\ path # ZeroPath)
    => IsError(result)

\* C8 (amended): with a malformed closing pair every valid non-zero path
\* other than MSH field 1 gets an error and an empty result; MSH field 1
\* gets the field separator and a nil error, the shortcut coming first.
C8_ClosingPairFatalButMSH1 ==
    (pc = "abstracted" /\ NoClosingPair(message) /\ Validate(path) = Nil
        /\ path # ZeroPath)
    => IF IsMSH1(path) THEN result = Ret(<<message[4]>>) ELSE IsError(result)

\* C8 witness: the closing pair alone is malformed and the call failed on it.
C8_Witness ==
    /\ pc = "abstracted" /\ NoClosingPair(message)
    /\ path = HL7Path(PID, 1, 1, 1, 0, 0)
    /\ result = Fail(ErrExtraSeps)

\* the k-th piece (from 1) of a list of pieces, "" when there is none
PieceOrEmpty(pieces, k) == IF k \in 1..Len(pieces) THEN pieces[k] ELSE <<>>

\* C6: the three terminators are equivalent segment boundaries: the same
\* segment texts joined by any one terminator give the same result for
\* every valid path that names a segment (the zero-value path returns the
\* message, terminators and all), and a whole-segment result holds no "\r"
\* and no "\n".
C6_TerminatorsEquivalent ==
    (pc = "abstracted" /\ HeaderOK(message) /\ Validate(path) = Nil
        /\ path.Segment # <<>>)
    => /\ \A t \in Terminators :
            LET other == Join(RefSegments(message), t)
            IN  HeaderOK(other) => AbstractHL7(other, path) = result
       /\ path.Field = 0
            => \A i \in 1..Len(result.val) : result.val[i] \notin {CR, LF}

\* C6, the part the code keeps: a message whose segments are all ended by
\* "\n" is cut into exactly its segment texts.
C6_LineFeedOnly ==
    (pc = "abstracted" /\ HeaderOK(message) /\ \A i \in 1..Len(message) : message[i] # CR)
    => splitByAnyOf(message, SegmentTerminators) = RefSegments(message)

\* C7: MSH-1 is the field separator, MSH-2 the whole encoding-characters
\* field, and MSH-n for n >= 3 the first repetition of piece n-1 of the
\* header segment cut on the field separator (the name being piece 0).
C7_MSHFieldNumbering ==
    (pc = "abstracted" /\ HeaderOK(message)
        /\ path.Segment = MSH /\ path.SegmentIndex = 1 /\ path.Field >= 1
        /\ path.RepetitionIndex = 1 /\ path.Component = 0 /\ path.Subcomponent = 0)
    => LET pieces == Split(RefSegments(message)[1], <<message[4]>>)
           n == path.Field
       IN  result = Ret(IF n = 1 THEN <<message[4]>>
                        ELSE IF n = 2 THEN PieceOrEmpty(pieces, 2)
                        ELSE Split(PieceOrEmpty(pieces, n), <<message[6]>>)[1])

\* C10: with Field = 0 the result is the SegmentIndex-th, in message order,
\* of the segments whose text starts with path.Segment.
C10_KthMatchingSegment ==
    (pc = "abstracted" /\ HeaderOK(message) /\ Validate(path) = Nil
        /\ path.Segment # <<>> /\ path.Field = 0
        /\ path.SegmentIndex \in 1..Len(RefMatching(message, path.Segment)))
    => result = Ret(RefMatching(message, path.Segment)[path.SegmentIndex])

\* C7 and C10 hold of the segments the code itself cuts: the numbering and
\* the selection are right, the segment texts are not.
CodeSegments(m) == splitByAnyOf(m, SegmentTerminators)

C7_OnCodeSegments ==
    (pc = "abstracted" /\ HeaderOK(message)
        /\ path.Segment = MSH /\ path.SegmentIndex = 1 /\ path.Field >= 1
        /\ path.RepetitionIndex = 1 /\ path.Component = 0 /\ path.Subcomponent = 0)
    => LET pieces == Split(CodeSegments(message)[1], <<message[4]>>)
           n == path.Field
       IN  result = Ret(IF n = 1 THEN <<message[4]>>
                        ELSE IF n = 2 THEN PieceOrEmpty(pieces, 2)
                        ELSE Split(PieceOrEmpty(pieces, n), <<message[6]>>)[1])

C10_OnCodeSegments ==
    (pc = "abstracted" /\ HeaderOK(message) /\ Validate(path) = Nil
        /\ path.Segment # <<>> /\ path.Field = 0)
    => LET matching == SelectSeq(CodeSegments(message),
                                 LAMBDA seg : HasPrefix(seg, path.Segment))
       IN  result = Ret(PieceOrEmpty(matching, path.SegmentIndex))

----------------------------------------------------------------------------
\* Claims about Validate and about AbstractHL7 on any path (specification
\* SpecAny)

\* C2: a path that fails Validate gets "" and exactly Validate's error from
\* AbstractHL7, whatever the message (well formed, malformed or empty).
C2_ValidateBeforeMessage ==
    (pc = "abstracted" /\ Validate(path) # Nil) => result = Fail(Validate(path))

\* C2 witness: the empty message and an invalid path gave the path's error,
\* not the message's.
C2_Witness ==
    /\ pc = "abstracted" /\ message = <<>>
    /\ path = HL7Path(MSH, 2, 1, 1, 0, 0)
    /\ result = Fail(ErrMSHIndex)

\* the invariant list of the data model, in its order, each rule with the
\* message of its violation
Rules(p) ==
    << [holds |-> p.Segment = <<>> =>
                    /\ p.SegmentIndex = 0 /\ p.Field = 0 /\ p.RepetitionIndex = 0
                    /\ p.Component = 0 /\ p.Subcomponent = 0,
        msg |-> ErrSegmentEmpty],
       [holds |-> p.Segment = MSH => p.SegmentIndex = 1, msg |-> ErrMSHIndex],
       [holds |-> (p.Segment = MSH /\ p.Field = 1) =>
                    (p.Component = 0 /\ p.Subcomponent = 0),
        msg |-> ErrMSHField1],
       [holds |-> p.Field # 0 => (p.Segment # <<>> /\ p.RepetitionIndex >= 1),
        msg |-> IF p.Segment = <<>> THEN ErrFieldSegment ELSE ErrFieldRep],
       [holds |-> p.RepetitionIndex # 0 => p.Field # 0, msg |-> ErrRepField],
       [holds |-> p.Component # 0 => p.Field # 0, msg |-> ErrCompField],
       [holds |-> p.Subcomponent # 0 => p.Component # 0, msg |-> ErrSubComp] >>

FirstViolated(p) ==
    LET bad == {i \in 1..Len(Rules(p)) : ~Rules(p)[i].holds}
    IN  IF bad = {} THEN Nil ELSE Rules(p)[Min(bad)].msg

\* C9: Validate returns nil exactly when the path satisfies rules (1) to
\* (7), and otherwise the message of the first rule violated in that order.
C9_ValidateIsRuleList ==
    pc = "validated" => result.err = FirstViolated(path)

\* C9 on paths whose numbers are all non-negative: there the rule list and
\* Validate agree.
C9_OnNaturals ==
    (pc = "validated" /\ path.SegmentIndex >= 0 /\ path.Field >= 0
        /\ path.RepetitionIndex >= 0 /\ path.Component >= 0
        /\ path.Subcomponent >= 0)
    => result.err = FirstViolated(path)

----------------------------------------------------------------------------
\* Claims about ParsePath (specification SpecParse)

\* the text after the segment name as tokens: a run of digits is one token
RECURSIVE Tokens(_)
Tokens(s) ==
    IF s = <<>> THEN <<>>
    ELSE IF s[1] \in Digit
         THEN LET e == DigitRunEnd(s, 1)
              IN  <<[kind |-> "D", digits |-> SubSeq(s, 1, e)]>>
                     \o Tokens(SubSeq(s, e + 1, Len(s)))
         ELSE <<[kind |-> IF s[1] \in {"-", "."} THEN "S"
                          ELSE IF s[1] \in {"[", "]"} THEN s[1] ELSE "?",
                 digits |-> <<>>]>> \o Tokens(Tail(s))

Kinds(ts) == [i \in 1..Len(ts) |-> ts[i].kind]

\* the grammar SEGMENT([IDX])?(SEP FIELD([IDX])?(SEP COMPONENT(SEP SUBCOMPONENT)?)?)?
\* after SEGMENT, as the token sequences it allows
IndexShapes == {<<>>, <<"[", "D", "]">>}
SubShapes   == {<<>>, <<"S", "D">>}
CompShapes  == {<<>>} \union {<<"S", "D">> \o x : x \in SubShapes}
FieldShapes == {<<>>} \union {<<"S", "D">> \o i \o c : i \in IndexShapes, c \in CompShapes}
PathShapes  == {i \o f : i \in IndexShapes, f \in FieldShapes}

InGrammar(s) ==
    /\ Len(s) >= 3
    /\ s[1] \in Upper
    /\ \A i \in 2..3 : s[i] \in Upper \union Digit
    /\ Kinds(Tokens(SubSeq(s, 4, Len(s)))) \in PathShapes

\* the digits written for each group of a text of the grammar, <<>> for a
\* group that is omitted
Written(s) ==
    LET ts   == Tokens(SubSeq(s, 4, Len(s)))
        hasI == Len(ts) >= 1 /\ ts[1].kind = "["
        a    == IF hasI THEN SubSeq(ts, 4, Len(ts)) ELSE ts
        hasF == Len(a) >= 2
        b    == SubSeq(a, 3, Len(a))
        hasR == hasF /\ Len(b) >= 1 /\ b[1].kind = "["
        c    == IF hasR THEN SubSeq(b, 4, Len(b)) ELSE b
    IN  [index |-> IF hasI THEN ts[2].digits ELSE <<>>,
         field |-> IF hasF THEN a[2].digits ELSE <<>>,
         rep   |-> IF hasR THEN b[2].digits ELSE <<>>,
         comp  |-> IF Len(c) >= 2 THEN c[2].digits ELSE <<>>,
         sub   |-> IF Len(c) >= 4 THEN c[4].digits ELSE <<>>]

\* a non-negative number in decimal
RECURSIVE ToDigits(_)
ToDigits(n) ==
    LET d == CHOOSE x \in Digit : DigitValue(x) = n % 10
    IN  IF n < 10 THEN <<d>> ELSE Append(ToDigits(n \div 10), d)

\* v is the decimal value of the digits g when g is written, the default
\* otherwise
HasValue(v, g, default) ==
    IF g = <<>> THEN v = default ELSE v >= 0 /\ ToDigits(v) = StripZeros(g)

\* the same, a written number beyond the largest int counting as omitted
HasIntValue(v, g, default) ==
    IF g = <<>> \/ ~FitsInt(g) THEN v = default ELSE HasValue(v, g, default)

\* C4 (as stated): "" gives the zero-value Path; a text of the grammar gives
\* the Path of its written groups' decimal values and the defaults of the
\* omitted ones; any other text gives the error "invalid path format".
C4_ParsePathIsGrammar ==
    pc = "parsed" =>
        IF text = <<>> THEN path = ZeroPath /\ result.err = Nil
        ELSE IF ~InGrammar(text) THEN result.err = ErrPathFormat
        ELSE LET w == Written(text)
             IN  /\ result.err = Nil
                 /\ path.Segment = SubSeq(text, 1, 3)
                 /\ HasValue(path.SegmentIndex, w.index, 1)
                 /\ HasValue(path.Field, w.field, 0)
                 /\ HasValue(path.RepetitionIndex, w.rep,
                             IF path.Field > 0 THEN 1 ELSE 0)
                 /\ HasValue(path.Component, w.comp, 0)
                 /\ HasValue(path.Subcomponent, w.sub, 0)

\* C4 (amended): the same, except that a written group whose decimal value
\* does not fit an int takes the default of an omitted group.
C4_ParsePathIsGrammarOfInts ==
    pc = "parsed" =>
        IF text = <<>> THEN path = ZeroPath /\ result.err = Nil
        ELSE IF ~InGrammar(text) THEN result.err = ErrPathFormat
        ELSE LET w == Written(text)
             IN  /\ result.err = Nil
                 /\ path.Segment = SubSeq(text, 1, 3)
                 /\ HasIntValue(path.SegmentIndex, w.index, 1)
                 /\ HasIntValue(path.Field, w.field, 0)
                 /\ HasIntValue(path.RepetitionIndex, w.rep,
                                IF path.Field > 0 THEN 1 ELSE 0)
                 /\ HasIntValue(path.Component, w.comp, 0)
                 /\ HasIntValue(path.Subcomponent, w.sub, 0)

\* C4 witness: a text with mixed separators, a leading zero and an omitted
\* repetition index has been parsed.
C4_Witness ==
    /\ pc = "parsed"
    /\ text = PID \o <<"[", "0", "2", "]", "-", "1", ".", "2", "-", "1">>
    /\ result.err = Nil
    /\ path = HL7Path(PID, 2, 1, 1, 2, 1)

\* C5 (as stated): every Path that ParsePath returns with a nil error
\* passes Validate.
C5_ParsedPathIsValid ==
    pc = "validated" => result.err = Nil

\* every number written in the text is at least 1 and fits an int
AllWrittenPositive(s) ==
    LET w == Written(s)
    IN  \A g \in {w.index, w.field, w.rep, w.comp, w.sub} :
            g # <<>> => (FitsInt(g) /\ StripZeros(g) # <<"0">>)

\* the text addresses MSH with a segment index other than 1, or MSH field 1
\* with a component
MSHMisaddressed(s) ==
    LET w == Written(s)
    IN  /\ SubSeq(s, 1, 3) = MSH
        /\ \/ w.index # <<>> /\ StripZeros(w.index) # <<"1">>
           \/ StripZeros(w.field) = <<"1">> /\ w.comp # <<>>

\* C5 (amended): ParsePath does not validate; the Path it returns with a
\* nil error passes Validate when every number written in the text is at
\* least 1 and fits an int and the text does not address MSH with a segment
\* index other than 1 or MSH field 1 with a component.
C5_ParsedPathIsValidWhenPositive ==
    (pc = "validated" /\ text # <<>> /\ AllWrittenPositive(text)
        /\ ~MSHMisaddressed(text))
    => result.err = Nil

\* C5 witness: a text with every group written has been parsed and its
\* Path has passed Validate.
C5_Witness ==
    /\ pc = "validated"
    /\ text = PID \o <<"[", "2", "]", "-", "1", "[", "2", "]", ".", "2", "-", "1">>
    /\ AllWrittenPositive(text) /\ ~MSHMisaddressed(text)
    /\ path = HL7Path(PID, 2, 1, 2, 2, 1)
    /\ result.err = Nil

----------------------------------------------------------------------------
\* Claims about the levels of an address and about index safety
\* (specification Spec)

\* the k-th piece of what a call returned, cut on sep, "" when there are
\* fewer than k pieces; a call that did not return a string has no pieces
\* and its outcome stands
PieceOf(r, sep, k) ==
    IF r.panicked \/ r.err # Nil THEN r
    ELSE Ret(PieceOrEmpty(Split(r.val, <<sep>>), k))

\* the segments the code cuts whose text starts with name
CodeMatching(m, name) ==
    SelectSeq(CodeSegments(m), LAMBDA seg : HasPrefix(seg, name))

\* the path selects a repetition that is there: the text of that repetition
SelectsRepetition(m, p) ==
    /\ p.Segment # <<>>
    /\ p.SegmentIndex \in 1..Len(CodeMatching(m, p.Segment))
    /\ LET seg == CodeMatching(m, p.Segment)[p.SegmentIndex]
       IN  /\ p.Field \in 1..RefLastField(seg, p.Segment, m[4])
           /\ p.RepetitionIndex \in
                1..Len(RefRepetitions(RefField(seg, p.Segment, m[4], p.Field),
                                      p.Segment, p.Field, m[6]))

SelectedRepetition(m, p) ==
    LET seg == CodeMatching(m, p.Segment)[p.SegmentIndex]
    IN  RefRepetitions(RefField(seg, p.Segment, m[4], p.Field),
                       p.Segment, p.Field, m[6])[p.RepetitionIndex]

C12_NeverOutOfRange ==
    (pc = "abstracted" /\ Validate(path) = Nil) => ~result.panicked

\* where C12 fails: the target segment is found and the first negative
\* index among Field, RepetitionIndex, Component and Subcomponent is
\* reached before any level runs out (each range test is an upper bound
\* only); a SegmentIndex below 1 matches no segment and is harmless.
C12_AbortsOnlyOnNegative ==
    (pc = "abstracted" /\ Validate(path) = Nil /\ result.panicked)
    => /\ HeaderOK(message)
       /\ path.SegmentIndex \in 1..Len(CodeMatching(message, path.Segment))
       /\ \/ path.Field < 0
          \/ path.RepetitionIndex < 0
          \/ path.Component < 0
          \/ path.Subcomponent < 0

C12_SafeOnNaturals ==
    (pc = "abstracted" /\ Validate(path) = Nil
        /\ path.Field >= 0 /\ path.RepetitionIndex >= 0
        /\ path.Component >= 0 /\ path.Subcomponent >= 0)
    => ~result.panicked

====
